---- MODULE Spec2Model ----
\* Model of the demo integration (JackJPowell/uc-intg-demo): the simulated
\* media-player device (device.py), its show pool (const.py) and the
\* command dispatcher of the media-player entity (media_player.py), and the
\* setup flow (setup.py).
EXTENDS Integers, Sequences, FiniteSets, TLC

\* ------------------------------------------------------------------ bounds

\* Update events the event sink accepts in one run of the model.
MaxEvents == 3

\* Largest show pool of the specification that varies the pool (SpecPool).
MaxPool == 3

\* Longest address string submitted to the setup flow (SpecSetup).
MaxLen == 3

\* Setup-flow calls in one run of the model (SpecSetup).
MaxCalls == 2

\* --------------------------------------------------------------- constants

\* const.py: the catalogue of titles, in source order.
TV_SHOWS ==
    << "Breaking Bad", "The Wire", "Game of Thrones", "The Sopranos",
       "Mad Men", "The Office", "Friends", "Seinfeld", "Stranger Things",
       "The Mandalorian", "Ted Lasso", "Succession", "Better Call Saul",
       "The Crown", "Chernobyl", "Fleabag", "Black Mirror", "Fargo",
       "True Detective", "Westworld" >>

\* ucapi.media_player.States, the four members the device uses.
States == {"OFF", "ON", "PLAYING", "PAUSED"}

\* ucapi.media_player.Commands: the four handled ones and two that are not.
Commands == {"on", "off", "toggle", "play_pause", "stop", "next"}

MEDIA_IMAGE_URL == "https://avatars.githubusercontent.com/u/102359576?s=200&v=4"

\* ------------------------------------------------------------------- state

VARIABLES
    shows,        \* the list _select_random_show reads (const.TV_SHOWS)
    power_state,  \* DemoDevice._power_state
    media_title,  \* DemoDevice._media_title
    attributes,   \* DemoDevice.attributes (MediaPlayerAttributes)
    emitted,      \* events handed to self.events.emit by the last call
    event_count,  \* events handed to self.events.emit since construction
    selections,   \* calls of _select_random_show made by the last call
    raised,       \* exception that left the last call, or "none"
    status,       \* status code the last handle_command returned, or "none"
    returned,     \* value the last get_device_attributes returned, or "none"
    invoked,      \* device operations the last handle_command awaited
    call,         \* the last call: [op, cmd_id]
    pre,          \* the device just before the last call
    setup_call,   \* the last setup-flow call: [op, input_values]
    setup_result, \* what the last setup-flow call returned
    setup_raised, \* exception that left the last setup-flow call, or "none"
    setup_calls,  \* setup-flow calls made so far
    uuids_drawn,  \* values uuid.uuid4() has returned so far
    task,         \* per task, the handler it runs: [op, done, todo]
    current,      \* the task the event loop is running, or "none"
    poll_cancelled \* the polling task has been cancelled

vars == << shows, power_state, media_title, attributes, emitted, event_count,
           selections, raised, status, returned, invoked, call, pre,
           setup_call, setup_result, setup_raised, setup_calls, uuids_drawn,
           task, current, poll_cancelled >>

device_vars == << shows, power_state, media_title, attributes, emitted,
                  event_count, selections, raised, status, returned, invoked,
                  call, pre >>

setup_vars == << setup_call, setup_result, setup_raised, setup_calls,
                uuids_drawn >>

task_vars == << task, current, poll_cancelled >>

Range(s) == {s[i] : i \in DOMAIN s}

\* The device as a call finds it; emitted, selections and raised are the
\* call's own record of what it did.
Self ==
    [ power_state |-> power_state,
      media_title |-> media_title,
      attributes  |-> attributes,
      emitted     |-> << >>,
      selections  |-> << >>,
      raised      |-> "none" ]

\* Statement sequencing: of the outcomes S of a statement, those that
\* returned go on to the next statement, those that raised leave the call.
Returned(S) ==
    {s \in S : s.raised = "none"}

Raised(S) ==
    {s \in S : s.raised # "none"}

\* ------------------------------------------------------------ device.py

\* self.attributes.STATE = self._power_state
\* self.attributes.MEDIA_TITLE = self._media_title
SetAttributes(self) ==
    [self EXCEPT !.attributes =
        [@ EXCEPT !.STATE = self.power_state, !.MEDIA_TITLE = self.media_title]]

\* Mutant of available_shows: the current title is not filtered out.
available_shows_unfiltered(self) ==
    shows

\* Mutant of available_shows: the comparison is inverted.
available_shows_inverted(self) ==
    SelectSeq(shows, LAMBDA show : show = self.media_title)

\* [show for show in TV_SHOWS if show != self._media_title]
available_shows(self) ==
    SelectSeq(shows, LAMBDA show : show # self.media_title)

\* random.choice(available_shows): any element; IndexError on an empty list.
_select_random_show(self) ==
    LET available == available_shows(self)
    IN  IF available = << >>
        THEN { [self EXCEPT
                  !.raised = "IndexError",
                  !.selections = Append(@, [before |-> self.media_title,
                                            after  |-> self.media_title,
                                            raised |-> "IndexError"])] }
        ELSE { [self EXCEPT
                  !.media_title = available[i],
                  !.selections = Append(@, [before |-> self.media_title,
                                            after  |-> available[i],
                                            raised |-> "none"])]
               : i \in DOMAIN available }

\* self.events.emit(DeviceEvents.UPDATE, entity_id, {STATE, MEDIA_TITLE})
_emit_state_update(self) ==
    [self EXCEPT !.emitted =
        Append(@, [ event      |-> "UPDATE",
                    attributes |-> [ STATE       |-> self.power_state,
                                     MEDIA_TITLE |-> self.media_title ] ])]

\* The statement after a call that may have raised, applied to the outcomes
\* that returned: the attribute writes, the forced PLAYING of play_pause and
\* the emission of poll_device.
WriteAttributes(S) ==
    Raised(S) \cup {SetAttributes(s) : s \in Returned(S)}

ForcePlaying(S) ==
    Raised(S) \cup {[s EXCEPT !.power_state = "PLAYING"] : s \in Returned(S)}

EmitStateUpdate(S) ==
    Raised(S) \cup {_emit_state_update(s) : s \in Returned(S)}

\* Mutant of establish_connection: the state is left as constructed.
establish_connection_stays_off(self) ==
    WriteAttributes(_select_random_show(self))

establish_connection(self) ==
    WriteAttributes(_select_random_show([self EXCEPT !.power_state = "ON"]))

\* Mutant of poll_device: the event is emitted before the show is selected.
poll_device_emit_first(self) ==
    IF self.power_state \in {"ON", "PLAYING"}
    THEN WriteAttributes(_select_random_show(_emit_state_update(self)))
    ELSE {self}

\* Mutant of poll_device: PAUSED is polled like ON and PLAYING.
poll_device_polls_paused(self) ==
    IF self.power_state \in {"ON", "PLAYING", "PAUSED"}
    THEN EmitStateUpdate(WriteAttributes(_select_random_show(self)))
    ELSE {self}

\* Mutant of poll_device: the power state is not looked at.
poll_device_unguarded(self) ==
    EmitStateUpdate(WriteAttributes(_select_random_show(self)))

poll_device(self) ==
    IF self.power_state \in {"ON", "PLAYING"}
    THEN EmitStateUpdate(WriteAttributes(_select_random_show(self)))
    ELSE {self}

power_on(self) ==
    WriteAttributes(_select_random_show([self EXCEPT !.power_state = "ON"]))

\* Mutant of power_off: the title is not cleared.
power_off_keeps_title(self) ==
    {SetAttributes([self EXCEPT !.power_state = "OFF"])}

power_off(self) ==
    {SetAttributes([self EXCEPT !.power_state = "OFF", !.media_title = ""])}

\* Mutant of power_toggle: only ON counts as powered.
power_toggle_on_only(self) ==
    IF self.power_state = "ON"
    THEN power_off(self)
    ELSE power_on(self)

power_toggle(self) ==
    IF self.power_state \in {"ON", "PLAYING", "PAUSED"}
    THEN power_off(self)
    ELSE power_on(self)

\* Mutant of play_pause: from OFF the state is not forced to PLAYING.
play_pause_no_force(self) ==
    LET branch ==
            IF self.power_state = "OFF"
            THEN power_on(self)
            ELSE IF self.power_state = "PAUSED"
            THEN _select_random_show([self EXCEPT !.power_state = "PLAYING"])
            ELSE IF self.power_state \in {"ON", "PLAYING", "PAUSED"}
            THEN _select_random_show(
                    [self EXCEPT !.power_state =
                        IF self.power_state = "PLAYING" THEN "PAUSED" ELSE "PLAYING"])
            ELSE {self}
    IN  WriteAttributes(branch)

\* Mutant of play_pause: resuming from PAUSED selects no show.
play_pause_resume_keeps_show(self) ==
    LET branch ==
            IF self.power_state = "OFF"
            THEN ForcePlaying(power_on(self))
            ELSE IF self.power_state = "PAUSED"
            THEN {[self EXCEPT !.power_state = "PLAYING"]}
            ELSE IF self.power_state \in {"ON", "PLAYING", "PAUSED"}
            THEN _select_random_show(
                    [self EXCEPT !.power_state =
                        IF self.power_state = "PLAYING" THEN "PAUSED" ELSE "PLAYING"])
            ELSE {self}
    IN  WriteAttributes(branch)

\* Mutant of play_pause: the attributes are not written at the end.
play_pause_stale_attributes(self) ==
    LET branch ==
            IF self.power_state = "OFF"
            THEN ForcePlaying(power_on(self))
            ELSE IF self.power_state = "PAUSED"
            THEN _select_random_show([self EXCEPT !.power_state = "PLAYING"])
            ELSE IF self.power_state \in {"ON", "PLAYING", "PAUSED"}
            THEN _select_random_show(
                    [self EXCEPT !.power_state =
                        IF self.power_state = "PLAYING" THEN "PAUSED" ELSE "PLAYING"])
            ELSE {self}
    IN  branch

\* Mutant of play_pause: the PLAYING case of the toggle is lost.
play_pause_always_plays(self) ==
    LET branch ==
            IF self.power_state = "OFF"
            THEN ForcePlaying(power_on(self))
            ELSE _select_random_show([self EXCEPT !.power_state = "PLAYING"])
    IN  WriteAttributes(branch)

play_pause(self) ==
    LET branch ==
            IF self.power_state = "OFF"
            THEN ForcePlaying(power_on(self))
            ELSE IF self.power_state = "PAUSED"
            THEN _select_random_show([self EXCEPT !.power_state = "PLAYING"])
            ELSE IF self.power_state \in {"ON", "PLAYING", "PAUSED"}
            THEN _select_random_show(
                    [self EXCEPT !.power_state =
                        IF self.power_state = "PLAYING" THEN "PAUSED" ELSE "PLAYING"])
            ELSE {self}
    IN  WriteAttributes(branch)

get_device_attributes(self) ==
    self.attributes

\* ------------------------------------------------------ media_player.py

\* Mutant of Awaited: no except clause, the exception leaves handle_command.
Awaited_uncaught(op, S) ==
    { [ device  |-> s,
        status  |-> IF s.raised # "none" THEN "none" ELSE "OK",
        invoked |-> <<op>> ] : s \in S }

\* try: ... return OK / except Exception: return BAD_REQUEST, around the one
\* awaited device operation op, whose outcomes are S.
Awaited(op, S) ==
    { IF s.raised # "none"
      THEN [ device  |-> [s EXCEPT !.raised = "none"],
             status  |-> "BAD_REQUEST",
             invoked |-> <<op>> ]
      ELSE [ device |-> s, status |-> "OK", invoked |-> <<op>> ] : s \in S }

\* Mutant of handle_command: the default case falls into PLAY_PAUSE.
handle_command_default_plays(self, cmd_id) ==
    IF cmd_id = "on" THEN Awaited("power_on", power_on(self))
    ELSE IF cmd_id = "off" THEN Awaited("power_off", power_off(self))
    ELSE IF cmd_id = "toggle" THEN Awaited("power_toggle", power_toggle(self))
    ELSE Awaited("play_pause", play_pause(self))

\* Mutant of handle_command: TOGGLE is dispatched to power_off.
handle_command_toggle_is_off(self, cmd_id) ==
    IF cmd_id = "on" THEN Awaited("power_on", power_on(self))
    ELSE IF cmd_id = "off" THEN Awaited("power_off", power_off(self))
    ELSE IF cmd_id = "toggle" THEN Awaited("power_off", power_off(self))
    ELSE IF cmd_id = "play_pause" THEN Awaited("play_pause", play_pause(self))
    ELSE {[device |-> self, status |-> "NOT_IMPLEMENTED", invoked |-> << >>]}

\* The outcomes of handle_command: the device it leaves, the status it
\* returns and the device operation it awaited.
handle_command(self, cmd_id) ==
    IF cmd_id = "on" THEN Awaited("power_on", power_on(self))
    ELSE IF cmd_id = "off" THEN Awaited("power_off", power_off(self))
    ELSE IF cmd_id = "toggle" THEN Awaited("power_toggle", power_toggle(self))
    ELSE IF cmd_id = "play_pause" THEN Awaited("play_pause", play_pause(self))
    ELSE {[device |-> self, status |-> "NOT_IMPLEMENTED", invoked |-> << >>]}

\* ------------------------------------------------------------- setup.py

\* Strings of the setup flow are sequences of characters.
Whitespace == {" ", "\t"}

Chars == {" ", ".", "7"}

RECURSIVE lstrip(_)
lstrip(s) ==
    IF s # << >> /\ Head(s) \in Whitespace THEN lstrip(Tail(s)) ELSE s

RECURSIVE rstrip(_)
rstrip(s) ==
    IF s # << >> /\ s[Len(s)] \in Whitespace
    THEN rstrip(SubSeq(s, 1, Len(s) - 1))
    ELSE s

\* str.strip()
strip(s) ==
    rstrip(lstrip(s))

\* str.replace(old, new) for single characters
replace(s, old, new) ==
    [i \in DOMAIN s |-> IF s[i] = old THEN new ELSE s[i]]

\* A Python value: a str, or something that is no str (None).
Str(s) == [type |-> "str", value |-> s]

None == [type |-> "NoneType", value |-> << >>]

\* dict.get(key, default) on a mapping held as a set of <<key, value>> pairs
get(d, key, default) ==
    IF \E kv \in d : kv[1] = key
    THEN (CHOOSE kv \in d : kv[1] = key)[2]
    ELSE default

\* str(uuid.uuid4()): 36 characters, 8-4-4-4-12 hexadecimal digits. A sample
\* of the values it can return; the first two differ only after the eighth.
UUID4 ==
    { <<"3","f","2","a","9","c","0","1">> \o
        <<"-","7","b","4","e","-","4","d","1","2","-","9","a","6","c","-",
          "0","e","5","f","8","8","1","b","2","c","3","d">>,
      <<"3","f","2","a","9","c","0","1">> \o
        <<"-","1","1","c","0","-","4","a","9","e","-","b","3","0","2","-",
          "7","7","d","4","5","a","e","0","6","f","9","1">>,
      <<"c","4","8","8","0","e","5","d">> \o
        <<"-","7","b","4","e","-","4","d","1","2","-","9","a","6","c","-",
          "0","e","5","f","8","8","1","b","2","c","3","d">>,
      <<"0","b","6","1","d","7","a","2">> \o
        <<"-","1","1","c","0","-","4","a","9","e","-","b","3","0","2","-",
          "7","7","d","4","5","a","e","0","6","f","9","1">> }

\* The form: title and the two settings, the address one with its default.
_DEMO_INPUT_SCHEMA ==
    [ kind     |-> "RequestUserInput",
      title    |-> "Demo Device Setup",
      settings |-> << [id |-> "info", label |-> "Setup Demo Device"],
                      [id |-> "address", label |-> "IP Address",
                       text |-> "192.168.1.100"] >> ]

DemoConfig(identifier, name, address) ==
    [ kind       |-> "DemoConfig",
      identifier |-> identifier,
      name       |-> name,
      address    |-> address ]

SetupError(error_type) ==
    [ kind |-> "SetupError", error_type |-> error_type ]

get_manual_entry_form ==
    _DEMO_INPUT_SCHEMA

\* The outcome of a call: the exception that left it, or the value returned.
Return(v) == [raised |-> "none", value |-> v]

\* No value: nothing was returned.
NoValue == [kind |-> "none"]

Raise(e) == [raised |-> e, value |-> NoValue]

\* The body of the try block: it awaits nothing and calls nothing that fails.
query_device_try(address, uuid4) ==
    LET short_id   == SubSeq(uuid4, 1, 8)
        identifier == <<"d","e","m","o","_">> \o replace(address, ".", "_")
                          \o <<"_">> \o short_id
        name       == <<"D","e","m","o"," ","(">> \o address \o <<")">>
    IN  Return(DemoConfig(identifier, name, address))

\* Mutant of query_device: the address is not stripped.
query_device_unstripped(input_values, uuid4) ==
    LET got == get(input_values, "address", Str(<< >>))
    IN  IF got.type # "str"
        THEN Raise("AttributeError")
        ELSE IF got.value = << >>
             THEN Return(_DEMO_INPUT_SCHEMA)
             ELSE query_device_try(got.value, uuid4)

\* Mutant of query_device: the identifier keeps the address as typed.
query_device_keeps_dots(input_values, uuid4) ==
    LET got == get(input_values, "address", Str(<< >>))
    IN  IF got.type # "str"
        THEN Raise("AttributeError")
        ELSE LET address == strip(got.value)
             IN  IF address = << >>
                 THEN Return(_DEMO_INPUT_SCHEMA)
                 ELSE Return(DemoConfig(
                         <<"d","e","m","o","_">> \o address \o <<"_">>
                             \o SubSeq(uuid4, 1, 8),
                         <<"D","e","m","o"," ","(">> \o address \o <<")">>,
                         address))

\* query_device, with the value uuid.uuid4() returns in it. The .strip() of
\* line 91 is outside the try block: on a value that is no str it raises
\* AttributeError out of the call.
query_device(input_values, uuid4) ==
    LET got == get(input_values, "address", Str(<< >>))
    IN  IF got.type # "str"
        THEN Raise("AttributeError")
        ELSE LET address == strip(got.value)
                 tried   == IF address = << >>
                            THEN Return(_DEMO_INPUT_SCHEMA)
                            ELSE query_device_try(address, uuid4)
             IN  IF tried.raised = "none" THEN tried
                 ELSE IF tried.raised = "ConnectionError"
                 THEN Return(SetupError("CONNECTION_REFUSED"))
                 ELSE IF tried.raised = "TimeoutError"
                 THEN Return(SetupError("TIMEOUT"))
                 ELSE Return(SetupError("CONNECTION_REFUSED"))

\* ----------------------------------------------------------------- steps

Before ==
    [ power_state |-> power_state,
      media_title |-> media_title,
      attributes  |-> attributes,
      event_count |-> event_count ]

\* The call named op (with command cmd_id) ends with the device as s.
Finish(op, cmd_id, s, st, ret, inv) ==
    /\ event_count + Len(s.emitted) <= MaxEvents
    /\ power_state' = s.power_state
    /\ media_title' = s.media_title
    /\ attributes' = s.attributes
    /\ emitted' = s.emitted
    /\ event_count' = event_count + Len(s.emitted)
    /\ selections' = s.selections
    /\ raised' = s.raised
    /\ status' = st
    /\ returned' = ret
    /\ invoked' = inv
    /\ call' = [op |-> op, cmd_id |-> cmd_id]
    /\ pre' = Before
    /\ UNCHANGED shows
    /\ UNCHANGED setup_vars
    /\ UNCHANGED task_vars

EstablishConnection ==
    \E s \in establish_connection(Self) :
        Finish("establish_connection", "none", s, "none", "none", << >>)

PollDevice ==
    \E s \in poll_device(Self) : Finish("poll_device", "none", s, "none", "none", << >>)

PowerOn ==
    \E s \in power_on(Self) : Finish("power_on", "none", s, "none", "none", << >>)

PowerOff ==
    \E s \in power_off(Self) : Finish("power_off", "none", s, "none", "none", << >>)

PowerToggle ==
    \E s \in power_toggle(Self) : Finish("power_toggle", "none", s, "none", "none", << >>)

PlayPause ==
    \E s \in play_pause(Self) : Finish("play_pause", "none", s, "none", "none", << >>)

GetDeviceAttributes ==
    Finish("get_device_attributes", "none", Self, "none",
           get_device_attributes(Self), << >>)

HandleCommand ==
    \E cmd_id \in Commands :
        \E r \in handle_command(Self, cmd_id) :
            Finish("handle_command", cmd_id, r.device, r.status, "none", r.invoked)

\* The strings of at most MaxLen characters.
Strings ==
    UNION { [1..n -> Chars] : n \in 0..MaxLen }

\* The mappings a submitted form can hold: no address, a string, or null.
InputValues ==
    {{}} \cup { {<<"address", Str(s)>>} : s \in Strings }
         \cup { {<<"address", None>>} }

FinishSetup(op, input_values, outcome) ==
    /\ setup_call' = [op |-> op, input_values |-> input_values]
    /\ setup_result' = outcome.value
    /\ setup_raised' = outcome.raised
    /\ setup_calls' = setup_calls + 1
    /\ UNCHANGED device_vars
    /\ UNCHANGED task_vars

GetManualEntryForm ==
    /\ setup_calls < MaxCalls
    /\ FinishSetup("get_manual_entry_form", {}, Return(get_manual_entry_form))
    /\ UNCHANGED uuids_drawn

\* uuid.uuid4() is taken never to return the same value twice; it is called
\* only on the path that builds a DemoConfig.
QueryDevice ==
    /\ setup_calls < MaxCalls
    /\ \E input_values \in InputValues :
          \E uuid4 \in UUID4 \ uuids_drawn :
              LET outcome == query_device(input_values, uuid4)
              IN  /\ FinishSetup("query_device", input_values, outcome)
                  /\ uuids_drawn' =
                        IF outcome.value.kind = "DemoConfig"
                        THEN uuids_drawn \cup {uuid4}
                        ELSE uuids_drawn

\* No setup-flow call has been made.
SetupStart ==
    /\ setup_call = [op |-> "none", input_values |-> {}]
    /\ setup_result = NoValue
    /\ setup_raised = "none"
    /\ setup_calls = 0
    /\ uuids_drawn = {}

\* ------------------------------------------- the handlers, by statement

\* The asyncio tasks that call the device: the polling task and the task of
\* an inbound command.
Tasks == {"poll", "cmd"}

Stmt(k, v) == [k |-> k, v |-> v]

\* self.attributes.STATE = ...; self.attributes.MEDIA_TITLE = ...
attributes_stmts ==
    << Stmt("attributes.STATE", ""), Stmt("attributes.MEDIA_TITLE", "") >>

power_on_stmts ==
    << Stmt("_power_state", "ON"), Stmt("_select_random_show", "") >>
        \o attributes_stmts

power_off_stmts ==
    << Stmt("_power_state", "OFF"), Stmt("_media_title", "") >>
        \o attributes_stmts

power_toggle_stmts(state) ==
    IF state \in {"ON", "PLAYING", "PAUSED"}
    THEN power_off_stmts
    ELSE power_on_stmts

\* Mutant of play_pause_stmts: the awaited power_on suspends (device I/O)
\* before play_pause goes on.
play_pause_stmts_suspending(state) ==
    ( IF state = "OFF"
      THEN power_on_stmts \o << Stmt("suspend", ""),
                                Stmt("_power_state", "PLAYING") >>
      ELSE IF state = "PAUSED"
      THEN << Stmt("_power_state", "PLAYING"), Stmt("_select_random_show", "") >>
      ELSE IF state \in {"ON", "PLAYING", "PAUSED"}
      THEN << Stmt("_power_state",
                   IF state = "PLAYING" THEN "PAUSED" ELSE "PLAYING"),
              Stmt("_select_random_show", "") >>
      ELSE << >> )
        \o attributes_stmts

\* "await self.power_on()" runs power_on to its end: a coroutine that awaits
\* nothing never hands the event loop back.
play_pause_stmts(state) ==
    ( IF state = "OFF"
      THEN power_on_stmts \o << Stmt("_power_state", "PLAYING") >>
      ELSE IF state = "PAUSED"
      THEN << Stmt("_power_state", "PLAYING"), Stmt("_select_random_show", "") >>
      ELSE IF state \in {"ON", "PLAYING", "PAUSED"}
      THEN << Stmt("_power_state",
                   IF state = "PLAYING" THEN "PAUSED" ELSE "PLAYING"),
              Stmt("_select_random_show", "") >>
      ELSE << >> )
        \o attributes_stmts

poll_device_stmts(state) ==
    IF state \in {"ON", "PLAYING"}
    THEN << Stmt("_select_random_show", "") >> \o attributes_stmts
            \o << Stmt("_emit_state_update", "") >>
    ELSE << >>

handle_command_stmts(cmd_id, state) ==
    IF cmd_id = "on" THEN power_on_stmts
    ELSE IF cmd_id = "off" THEN power_off_stmts
    ELSE IF cmd_id = "toggle" THEN power_toggle_stmts(state)
    ELSE IF cmd_id = "play_pause" THEN play_pause_stmts(state)
    ELSE << >>

\* The outcomes of one statement.
Exec(st, self) ==
    CASE st.k = "_power_state" -> {[self EXCEPT !.power_state = st.v]}
      [] st.k = "_media_title" -> {[self EXCEPT !.media_title = st.v]}
      [] st.k = "_select_random_show" -> _select_random_show(self)
      [] st.k = "attributes.STATE" ->
            {[self EXCEPT !.attributes.STATE = self.power_state]}
      [] st.k = "attributes.MEDIA_TITLE" ->
            {[self EXCEPT !.attributes.MEDIA_TITLE = self.media_title]}
      [] st.k = "_emit_state_update" -> {_emit_state_update(self)}
      [] OTHER -> {self}

\* A task is in a handler while it has statements left.
InHandler(t) == task[t].todo # << >>

Idle == [op |-> "none", done |-> 0, todo |-> << >>]

\* A task starts a handler when the event loop is free; evaluating the
\* conditions of the handler fixes the statements it will run. A handler
\* with nothing to run is over at once.
Begin(t, op, stmts) ==
    /\ current = "none"
    /\ ~InHandler(t)
    /\ task' = [task EXCEPT ![t] =
                  IF stmts = << >> THEN Idle
                  ELSE [op |-> op, done |-> 0, todo |-> stmts]]
    /\ current' = IF stmts = << >> THEN "none" ELSE t
    /\ emitted' = << >>
    /\ UNCHANGED << shows, power_state, media_title, attributes, event_count,
                    selections, raised, status, returned, invoked, call, pre,
                    setup_vars, poll_cancelled >>

\* The scheduler's tick: the polling task wakes from its sleep.
StartPoll ==
    /\ ~poll_cancelled
    /\ event_count < MaxEvents
    /\ Begin("poll", "poll_device", poll_device_stmts(power_state))

\* The command-routing layer delivers a command.
StartCommand ==
    \E cmd_id \in Commands :
        Begin("cmd", cmd_id, handle_command_stmts(cmd_id, power_state))

\* The event loop runs the next statement of a task: the task it is running,
\* or, when it is free, a task that was suspended in a handler. A suspending
\* statement frees the loop, and so does the end of the handler.
RunStatement ==
    \E t \in Tasks :
        /\ InHandler(t)
        /\ current \in {"none", t}
        /\ t = "poll" => ~poll_cancelled
        /\ LET st == Head(task[t].todo)
           IN  \E s \in Exec(st, Self) :
                 LET rest == IF s.raised # "none" THEN << >>
                             ELSE Tail(task[t].todo)
                 IN  /\ power_state' = s.power_state
                     /\ media_title' = s.media_title
                     /\ attributes' = s.attributes
                     /\ emitted' = IF s.emitted # << >> THEN s.emitted ELSE emitted
                     /\ event_count' = event_count + Len(s.emitted)
                     /\ task' = [task EXCEPT ![t] =
                                   IF rest = << >> THEN Idle
                                   ELSE [@ EXCEPT !.done = @ + 1,
                                                  !.todo = rest]]
                     /\ current' = IF st.k = "suspend" \/ rest = << >>
                                   THEN "none" ELSE t
        /\ UNCHANGED << shows, selections, raised, status, returned, invoked,
                        call, pre, setup_vars, poll_cancelled >>

\* Another task cancels the polling task; it needs the event loop to do so.
\* The polling task ends where it is suspended.
CancelPoll ==
    /\ current = "none"
    /\ ~poll_cancelled
    /\ poll_cancelled' = TRUE
    /\ UNCHANGED << device_vars, setup_vars, task, current >>

\* No task has run.
TasksStart ==
    /\ task = [t \in Tasks |-> Idle]
    /\ current = "none"
    /\ poll_cancelled = FALSE

\* DemoDevice.__init__
Constructed ==
    /\ power_state = "OFF"
    /\ media_title = ""
    /\ attributes = [ STATE           |-> "OFF",
                      MEDIA_TITLE     |-> "",
                      MEDIA_IMAGE_URL |-> MEDIA_IMAGE_URL ]
    /\ emitted = << >>
    /\ event_count = 0
    /\ selections = << >>
    /\ raised = "none"
    /\ status = "none"
    /\ returned = "none"
    /\ invoked = << >>
    /\ call = [op |-> "__init__", cmd_id |-> "none"]
    /\ pre = Before

Init ==
    /\ shows = TV_SHOWS
    /\ Constructed
    /\ SetupStart
    /\ TasksStart

\* The same program over a pool that is a prefix of the catalogue.
InitPool ==
    /\ shows \in {SubSeq(TV_SHOWS, 1, n) : n \in 1..MaxPool}
    /\ Constructed
    /\ SetupStart
    /\ TasksStart

Next ==
    \/ EstablishConnection
    \/ PollDevice
    \/ PowerOn
    \/ PowerOff
    \/ PowerToggle
    \/ PlayPause
    \/ GetDeviceAttributes
    \/ HandleCommand

Spec == Init /\ [][Next]_vars

SpecPool == InitPool /\ [][Next]_vars

\* The setup flow, which runs before any device exists.
NextSetup ==
    \/ GetManualEntryForm
    \/ QueryDevice

SpecSetup == Init /\ [][NextSetup]_vars

\* The polling task, the command task and the cancellation of the polling
\* task, interleaved statement by statement.
NextTasks ==
    \/ StartPoll
    \/ StartCommand
    \/ RunStatement
    \/ CancelPoll

SpecTasks == Init /\ [][NextTasks]_vars

\* ---------------------------------------------------------------- typing

TypeOK ==
    /\ power_state \in States
    /\ media_title \in Range(shows) \cup {""}
    /\ event_count \in 0..MaxEvents
    /\ raised \in {"none", "IndexError"}
    /\ status \in {"none", "OK", "BAD_REQUEST", "NOT_IMPLEMENTED"}

\* ---------------------------------------------------------------- claims

DidOp(op) == call.op = op

Pool == Range(shows)

\* C1: in every reachable state media_title is empty if and only if
\* power_state is OFF.
C1_TitleEmptyIffOff ==
    (media_title = "") <=> (power_state = "OFF")

C1_Witness ==
    /\ DidOp("play_pause")
    /\ power_state = "PAUSED"
    /\ media_title \in Pool

\* C2: play_pause called in PLAYING ends in PAUSED with media_title as it
\* was just before the call.
C2_PauseKeepsTitle ==
    (DidOp("play_pause") /\ pre.power_state = "PLAYING")
        => (power_state = "PAUSED" /\ media_title = pre.media_title)

\* C3: with more than one show in the pool, every operation that selects a
\* show (establish_connection, power_on, poll_device while ON or PLAYING,
\* play_pause) makes exactly one selection, from the title held before it to
\* a different member of the pool, and that member is the title it leaves.
C3_Selecting ==
    \/ call.op \in {"establish_connection", "power_on", "play_pause"}
    \/ (DidOp("poll_device") /\ pre.power_state \in {"ON", "PLAYING"})

C3_NeverRepeats ==
    Len(shows) > 1 =>
        /\ \A i \in DOMAIN selections :
              /\ selections[i].raised = "none"
              /\ selections[i].after \in Pool
              /\ selections[i].after # selections[i].before
        /\ C3_Selecting =>
              /\ Len(selections) = 1
              /\ selections[1].before = pre.media_title
              /\ media_title = selections[1].after

C3_Witness ==
    /\ Len(shows) > 1
    /\ DidOp("poll_device")
    /\ pre.power_state = "PLAYING"
    /\ Len(selections) = 1
    /\ selections[1].before \in Pool

C5_Table ==
    [ s \in States |-> IF s = "PLAYING" THEN "PAUSED" ELSE "PLAYING" ]

C5_PlayPauseTable ==
    DidOp("play_pause") => power_state = C5_Table[pre.power_state]

C5_Witness ==
    /\ DidOp("play_pause")
    /\ pre.power_state = "OFF"
    /\ power_state = "PLAYING"

\* C6: play_pause called in ON or PAUSED ends in PLAYING with a title that is
\* a pool member different from the title held just before the call.
C6_ResumeSelectsNewTitle ==
    (DidOp("play_pause") /\ pre.power_state \in {"ON", "PAUSED"})
        => /\ power_state = "PLAYING"
           /\ media_title \in Pool
           /\ media_title # pre.media_title

C6_Witness ==
    /\ DidOp("play_pause")
    /\ pre.power_state = "PAUSED"
    /\ power_state = "PLAYING"

\* C7: poll_device while OFF or PAUSED changes neither power_state, nor
\* media_title, nor the attributes, and emits no event.
C7_PollIdleIsNoOp ==
    (DidOp("poll_device") /\ pre.power_state \in {"OFF", "PAUSED"})
        => /\ power_state = pre.power_state
           /\ media_title = pre.media_title
           /\ attributes = pre.attributes
           /\ emitted = << >>
           /\ event_count = pre.event_count

C7_Witness ==
    /\ DidOp("poll_device")
    /\ pre.power_state = "PAUSED"
    /\ pre.media_title \in Pool

\* C8: poll_device while ON or PLAYING selects a new title, leaves
\* power_state as it was and emits exactly one update event, which carries
\* that power_state and the new title.
C8_PollActiveEmitsOnce ==
    (DidOp("poll_device") /\ pre.power_state \in {"ON", "PLAYING"})
        => /\ power_state = pre.power_state
           /\ media_title \in Pool
           /\ media_title # pre.media_title
           /\ event_count = pre.event_count + 1
           /\ emitted = << [ event      |-> "UPDATE",
                             attributes |-> [ STATE       |-> pre.power_state,
                                              MEDIA_TITLE |-> media_title ] ] >>

C8_Witness ==
    /\ DidOp("poll_device")
    /\ pre.power_state = "ON"
    /\ Len(emitted) = 1

\* C9: a dispatched command that changes power_state or media_title makes
\* the device emit an update event for the change.
C9_CommandChangeEmits ==
    ( /\ DidOp("handle_command")
      /\ (power_state # pre.power_state \/ media_title # pre.media_title) )
        => Len(emitted) >= 1

\* C10: when a device operation has returned, and when the dispatcher has
\* returned its status, the attributes hold the device's current power_state
\* and media_title; get_device_attributes returns them and changes nothing.
C10_SnapshotCurrent ==
    /\ attributes.STATE = power_state
    /\ attributes.MEDIA_TITLE = media_title
    /\ DidOp("get_device_attributes")
          => /\ returned = attributes
             /\ attributes = pre.attributes
             /\ power_state = pre.power_state
             /\ media_title = pre.media_title
             /\ emitted = << >>

C10_Witness ==
    /\ DidOp("handle_command")
    /\ call.cmd_id = "play_pause"
    /\ status = "OK"
    /\ pre.power_state = "PLAYING"
    /\ attributes.STATE = "PAUSED"

\* The device as the last call found it.
PreSelf ==
    [ power_state |-> pre.power_state,
      media_title |-> pre.media_title,
      attributes  |-> pre.attributes,
      emitted     |-> << >>,
      selections  |-> << >>,
      raised      |-> "none" ]

Unchanged ==
    /\ power_state = pre.power_state
    /\ media_title = pre.media_title
    /\ attributes = pre.attributes
    /\ event_count = pre.event_count

Recognized == {"on", "off", "toggle", "play_pause"}

\* C11: for every command identifier other than ON, OFF, TOGGLE and
\* PLAY_PAUSE the dispatcher returns NOT_IMPLEMENTED, invokes no device
\* operation and leaves power_state, media_title and the attributes as they
\* were.
C11_UnknownCommandRejected ==
    (DidOp("handle_command") /\ call.cmd_id \notin Recognized)
        => /\ status = "NOT_IMPLEMENTED"
           /\ invoked = << >>
           /\ selections = << >>
           /\ emitted = << >>
           /\ raised = "none"
           /\ Unchanged

C11_Witness ==
    /\ DidOp("handle_command")
    /\ call.cmd_id = "stop"
    /\ status = "NOT_IMPLEMENTED"
    /\ power_state = "PLAYING"

\* C12: for each recognized command the dispatcher invokes exactly one device
\* operation, the mapped one, the device is left as a direct call of that
\* operation would leave it, and the status is OK when the operation did not
\* fail.
C12_Mapped ==
    [ c \in Recognized |->
        CASE c = "on" -> "power_on"
          [] c = "off" -> "power_off"
          [] c = "toggle" -> "power_toggle"
          [] c = "play_pause" -> "play_pause" ]

C12_Direct(op) ==
    CASE op = "power_on" -> power_on(PreSelf)
      [] op = "power_off" -> power_off(PreSelf)
      [] op = "power_toggle" -> power_toggle(PreSelf)
      [] op = "play_pause" -> play_pause(PreSelf)

C12_RecognizedCommandDispatched ==
    (DidOp("handle_command") /\ call.cmd_id \in Recognized)
        => /\ invoked = << C12_Mapped[call.cmd_id] >>
           /\ \E s \in C12_Direct(C12_Mapped[call.cmd_id]) :
                 /\ s.power_state = power_state
                 /\ s.media_title = media_title
                 /\ s.attributes = attributes
                 /\ s.emitted = emitted
                 /\ s.selections = selections
                 /\ (s.raised = "none") => (status = "OK")

C12_Witness ==
    /\ DidOp("handle_command")
    /\ call.cmd_id = "toggle"
    /\ pre.power_state = "PAUSED"
    /\ power_state = "OFF"
    /\ status = "OK"

\* C13: a failure raised by the device operation a command maps to is caught
\* by the dispatcher and reported as BAD_REQUEST; no exception leaves
\* handle_command.
C13_Failed ==
    \E i \in DOMAIN selections : selections[i].raised # "none"

C13_FailureBecomesBadRequest ==
    DidOp("handle_command")
        => /\ raised = "none"
           /\ C13_Failed => status = "BAD_REQUEST"
           /\ status \in {"OK", "BAD_REQUEST", "NOT_IMPLEMENTED"}

C13_Witness ==
    /\ DidOp("handle_command")
    /\ C13_Failed
    /\ status = "BAD_REQUEST"

\* C14: power_toggle from ON, PLAYING or PAUSED has the effect of power_off
\* (OFF, empty title), from OFF the effect of power_on (ON, a pool member as
\* title); it never yields PLAYING or PAUSED.
C14_ToggleIsOffOrOn ==
    DidOp("power_toggle")
        => /\ pre.power_state \in {"ON", "PLAYING", "PAUSED"}
                => /\ power_state = "OFF"
                   /\ media_title = ""
                   /\ selections = << >>
           /\ pre.power_state = "OFF"
                => /\ power_state = "ON"
                   /\ media_title \in Pool
                   /\ Len(selections) = 1
           /\ power_state \notin {"PLAYING", "PAUSED"}
           /\ attributes.STATE = power_state
           /\ attributes.MEDIA_TITLE = media_title
           /\ emitted = << >>

C14_Witness ==
    /\ DidOp("power_toggle")
    /\ pre.power_state = "PLAYING"
    /\ power_state = "OFF"

\* C15: a newly constructed device is OFF with an empty title and attributes
\* saying the same; establish_connection on it yields ON with a pool member
\* as title, without failing.
C15_ConnectFromConstructed ==
    /\ DidOp("__init__")
          => /\ power_state = "OFF"
             /\ media_title = ""
             /\ attributes.STATE = "OFF"
             /\ attributes.MEDIA_TITLE = ""
    /\ (DidOp("establish_connection") /\ pre.power_state = "OFF"
            /\ pre.media_title = "")
          => /\ power_state = "ON"
             /\ media_title \in Pool
             /\ raised = "none"
             /\ attributes.STATE = "ON"
             /\ attributes.MEDIA_TITLE = media_title

C15_Witness ==
    /\ DidOp("establish_connection")
    /\ pre.power_state = "OFF"
    /\ pre.media_title = ""
    /\ power_state = "ON"

Submitted == get(setup_call.input_values, "address", Str(<< >>))

Blank(s) == \A i \in DOMAIN s : s[i] \in Whitespace

Tokens == {SubSeq(u, 1, 8) : u \in UUID4}

\* C16: query_device with an address that is missing, empty or only
\* whitespace returns the form get_manual_entry_form returns; it creates no
\* Configuration Record, returns no setup error and does not raise.
C16_BlankAddressReturnsForm ==
    ( /\ setup_call.op = "query_device"
      /\ Submitted.type = "str"
      /\ Blank(Submitted.value) )
        => /\ setup_raised = "none"
           /\ setup_result = get_manual_entry_form
           /\ setup_result.kind = "RequestUserInput"

C16_Witness ==
    /\ setup_call.op = "query_device"
    /\ Submitted.type = "str"
    /\ Len(Submitted.value) = 2
    /\ Blank(Submitted.value)
    /\ setup_result.kind = "RequestUserInput"

\* C17: query_device with an address that is not blank returns a
\* Configuration Record, never a setup error: its address is the input
\* without the whitespace around it, its identifier is "demo_", the address
\* with every dot replaced by an underscore, "_" and an eight-digit token,
\* and its name is "Demo (" address ")".
C17_Trimmed(v, a) ==
    \E i, j \in DOMAIN v :
        /\ i <= j
        /\ a = SubSeq(v, i, j)
        /\ v[i] \notin Whitespace
        /\ v[j] \notin Whitespace
        /\ \A k \in DOMAIN v : (k < i \/ k > j) => v[k] \in Whitespace

C17_Normalized(a, n) ==
    /\ Len(n) = Len(a)
    /\ \A k \in DOMAIN a : n[k] = (IF a[k] = "." THEN "_" ELSE a[k])

C17_AddressGivesRecord ==
    ( /\ setup_call.op = "query_device"
      /\ Submitted.type = "str"
      /\ ~Blank(Submitted.value) )
        => /\ setup_raised = "none"
           /\ setup_result.kind = "DemoConfig"
           /\ C17_Trimmed(Submitted.value, setup_result.address)
           /\ \E tok \in Tokens :
                 LET a  == setup_result.address
                     id == setup_result.identifier
                 IN  /\ Len(id) = 5 + Len(a) + 1 + 8
                     /\ SubSeq(id, 1, 5) = <<"d","e","m","o","_">>
                     /\ C17_Normalized(a, SubSeq(id, 6, 5 + Len(a)))
                     /\ id[6 + Len(a)] = "_"
                     /\ SubSeq(id, 7 + Len(a), Len(id)) = tok
           /\ setup_result.name =
                 <<"D","e","m","o"," ","(">> \o setup_result.address \o <<")">>

C17_Witness ==
    /\ setup_call.op = "query_device"
    /\ Submitted = Str(<<" ", ".", "7">>)
    /\ setup_result.kind = "DemoConfig"
    /\ setup_result.address = <<".", "7">>

\* C18: two calls of query_device with the same non-empty address return
\* Configuration Records with different identifiers (stated of two calls in
\* a row).
C18_IsRecord(call_, result) ==
    /\ call_.op = "query_device"
    /\ result.kind = "DemoConfig"

C18_IdentifiersDiffer ==
    [][ ( /\ C18_IsRecord(setup_call, setup_result)
          /\ C18_IsRecord(setup_call', setup_result')
          /\ setup_call'.input_values = setup_call.input_values )
            => setup_result'.identifier # setup_result.identifier ]_vars

\* C19: query_device never raises: for every submitted mapping (address
\* absent, empty, a string, or no string at all) it returns the form, a
\* Configuration Record or a setup error.
C19_NeverRaises ==
    setup_call.op = "query_device"
        => /\ setup_raised = "none"
           /\ setup_result.kind \in {"RequestUserInput", "DemoConfig", "SetupError"}

\* C22: no power state is terminal. From every reachable state one command
\* leads to OFF and one to ON; one command leads to PLAYING from every state
\* but PLAYING, and one to PAUSED from PLAYING. So each of the four states
\* is at most two commands away from every reachable state, and OFF can
\* always be left.
C22_NoTerminalState ==
    /\ ENABLED (HandleCommand /\ power_state' = "OFF")
    /\ ENABLED (HandleCommand /\ power_state' = "ON")
    /\ power_state # "PLAYING"
          => ENABLED (HandleCommand /\ power_state' = "PLAYING")
    /\ power_state = "PLAYING"
          => ENABLED (HandleCommand /\ power_state' = "PAUSED")

C22_Witness ==
    /\ DidOp("handle_command")
    /\ pre.power_state = "OFF"
    /\ power_state = "PLAYING"
    /\ event_count = MaxEvents

\* C23: every update event the device emits carries the power_state and
\* media_title the device has when it emits it, with power_state ON or
\* PLAYING and a title that is not empty.
C23_EventsCarryCurrentState ==
    \A i \in DOMAIN emitted :
        /\ emitted[i].event = "UPDATE"
        /\ emitted[i].attributes.STATE = power_state
        /\ emitted[i].attributes.MEDIA_TITLE = media_title
        /\ emitted[i].attributes.STATE \in {"ON", "PLAYING"}
        /\ emitted[i].attributes.MEDIA_TITLE \in Pool

C23_Witness ==
    /\ Len(emitted) = 1
    /\ emitted[1].attributes.STATE = "PLAYING"
    /\ emitted[1].attributes.MEDIA_TITLE = "Fargo"

\* C21: under every interleaving of the polling task, the command task and
\* the cancellation of the polling task, a task that is in a handler is the
\* one the event loop is running, so no other task runs between its writes;
\* whenever the loop is free the attributes agree with power_state and
\* media_title; and a cancelled polling task is not inside a tick.
C21_HandlersAtomic ==
    /\ \A t \in Tasks : InHandler(t) => current = t
    /\ current = "none"
          => /\ attributes.STATE = power_state
             /\ attributes.MEDIA_TITLE = media_title
             /\ (media_title = "") <=> (power_state = "OFF")
    /\ poll_cancelled => ~InHandler("poll")

C21_Witness ==
    /\ poll_cancelled
    /\ task["cmd"].op = "play_pause"
    /\ task["cmd"].done = 4
    /\ power_state = "ON"
    /\ Head(task["cmd"].todo) = Stmt("_power_state", "PLAYING")

====
